---------------------------- MODULE Spec2Model ----------------------------
(***************************************************************************)
(* TENK-DAO/NFT scripts: the batch mint driver (filter_accounts, hasToken, *)
(* mint, the loop of main) and the deploy script (main of deploy), with    *)
(* the remote contract and the NEAR account as their environment.          *)
(*                                                                         *)
(* A string the scripts inspect character by character (an account id) is  *)
(* a sequence of one-character strings; a string they only compare or      *)
(* concatenate (token_num, a media name, a method name) is a TLA+ string.  *)
(***************************************************************************)
EXTENDS Integers, Sequences, FiniteSets, TLC

VARIABLES
    prog,             \* which script this process runs: "mint" or "deploy"
    raw_account_ids,  \* the parsed input file: a list of raw identifiers
    token_num,        \* argv[2]
    accounts,         \* the result of filter_accounts
    i,                \* the loop index of main (0-based, as in the source)
    pc,               \* where main of the mint script stands
    remote,           \* the contract's tokens per owner (environment)
    calls,            \* every remote call issued so far, with its result
    inflight,         \* indexes into calls of the calls not yet answered
    log,              \* the console output of the current process
    outcomes,         \* per run, the branch the loop took for each account
    run,              \* "first" or "second" invocation on the same input
    target_has_code,  \* deploy: whether contractId has code (environment)
    tx_actions,       \* deploy: tx.actions
    sent,             \* deploy: the transactions handed to signAndSend
    dpc,              \* where main of the deploy script stands
    dlog,             \* deploy: the console output
    argv_length,      \* argv.length of the mint script
    number,           \* argv[3] of the mint script, "undefined" when absent
    has_account,      \* whether the Context carries an account
    killed,           \* whether the first run was terminated from outside
    res               \* deploy: res.status of signAndSend, "none" before

mintVars == <<raw_account_ids, token_num, accounts, i, pc, remote, calls,
              inflight, log, outcomes, run>>
deployVars == <<target_has_code, tx_actions, sent, dpc, dlog, res>>
ctxVars == <<argv_length, number, has_account>>
vars == <<prog, mintVars, deployVars, ctxVars, killed>>

----------------------------------------------------------------------------
(* Bounds of the model. *)

\* Longest raw identifier enumerated exhaustively for the validator.
MaxIdLen == 3

\* Longest input list of a batch run.
MaxAccounts == 2

----------------------------------------------------------------------------
(* Characters and strings. *)

LowerLetters ==
    {"a","b","c","d","e","f","g","h","i","j","k","l","m",
     "n","o","p","q","r","s","t","u","v","w","x","y","z"}

UpperLetters ==
    <<"A","B","C","D","E","F","G","H","I","J","K","L","M",
      "N","O","P","Q","R","S","T","U","V","W","X","Y","Z">>

LowerOf ==
    <<"a","b","c","d","e","f","g","h","i","j","k","l","m",
      "n","o","p","q","r","s","t","u","v","w","x","y","z">>

Digits == {"0","1","2","3","4","5","6","7","8","9"}

\* What String.prototype.trim strips (the members the model's inputs use).
WhiteSpace == {" ", "\t", "\n"}

\* The characters the exhaustive inputs are built from: a lower-case letter,
\* an upper-case letter, white space, the two kinds of separator of the
\* grammar, and a character outside the grammar.
Alphabet == {"a", "B", " ", ".", "-", "!"}

AllStrings(n) == UNION {[1..k -> Alphabet] : k \in 0..n}

\* The lower-case letter of each upper-case letter.
LowerCaseOf ==
    [c \in {UpperLetters[k] : k \in 1..Len(UpperLetters)} |->
        LowerOf[CHOOSE k \in 1..Len(UpperLetters) : UpperLetters[k] = c]]

\* String.prototype.toLowerCase, one character.
toLowerChar(c) == IF c \in DOMAIN LowerCaseOf THEN LowerCaseOf[c] ELSE c

toLowerCase(s) == [k \in 1..Len(s) |-> toLowerChar(s[k])]

RECURSIVE trimStart(_)
trimStart(s) ==
    IF s # <<>> /\ Head(s) \in WhiteSpace THEN trimStart(Tail(s)) ELSE s

RECURSIVE trimEnd(_)
trimEnd(s) ==
    IF s # <<>> /\ s[Len(s)] \in WhiteSpace
    THEN trimEnd(SubSeq(s, 1, Len(s) - 1))
    ELSE s

\* String.prototype.trim
trim(s) == trimEnd(trimStart(s))

----------------------------------------------------------------------------
(* valid_account_id: the regular expression                                *)
(*   ^(([a-z\d]+[-_])*[a-z\d]+\.)*([a-z\d]+[-_])*[a-z\d]+$                 *)
(* as a syntax tree, and RegExp.prototype.test as the set of positions a   *)
(* match starting at position p can end at.                                *)

ReClass(S) == [op |-> "class", set |-> S]
ReSeq(a, b) == [op |-> "seq", a |-> a, b |-> b]
ReStar(r) == [op |-> "star", r |-> r]
RePlus(r) == ReSeq(r, ReStar(r))

ReAlnum == ReClass(LowerLetters \cup Digits)
ReLabel == ReSeq(ReStar(ReSeq(RePlus(ReAlnum), ReClass({"-", "_"}))),
                 RePlus(ReAlnum))
valid_account_id == ReSeq(ReStar(ReSeq(ReLabel, ReClass({"."}))), ReLabel)

RECURSIVE MatchEnds(_, _, _)
RECURSIVE StarEnds(_, _, _)
MatchEnds(re, s, p) ==
    CASE re.op = "class" ->
           IF p < Len(s) /\ s[p + 1] \in re.set THEN {p + 1} ELSE {}
      [] re.op = "seq" ->
           UNION {MatchEnds(re.b, s, q) : q \in MatchEnds(re.a, s, p)}
      [] re.op = "star" -> StarEnds(re.r, s, {p})

StarEnds(r, s, P) ==
    LET N == P \cup UNION {MatchEnds(r, s, q) : q \in P}
    IN  IF N = P THEN P ELSE StarEnds(r, s, N)

\* re.test(s) for a regular expression anchored with ^ and $.
RegExpTest(re, s) == Len(s) \in MatchEnds(re, s, 0)

----------------------------------------------------------------------------
(* filter_accounts *)

\* Fault variant of normalize: the toLowerCase call is missing.
normalize_NoLowerCase(s) == trim(s)

\* The callback of raw_account_ids.map: s => s.trim().toLowerCase()
normalize(s) == toLowerCase(trim(s))

account_ids(raw) == [k \in 1..Len(raw) |-> normalize(raw[k])]

invalid_account_ids(raw) ==
    SelectSeq(account_ids(raw),
              LAMBDA id : ~RegExpTest(valid_account_id, id))

\* Fault variant of filter_accounts: the test of line 78 is negated.
filter_accounts_Inverted(raw) == invalid_account_ids(raw)

\* Fault variant of filter_accounts: the mapped list is returned unfiltered.
filter_accounts_NoFilter(raw) == account_ids(raw)

\* The value filter_accounts returns.
filter_accounts(raw) ==
    SelectSeq(account_ids(raw),
              LAMBDA id : RegExpTest(valid_account_id, id))

\* Fault variant of filter_accounts_log: the line is printed for every input.
filter_accounts_log_Always(raw) ==
    <<[text |-> "invalid Ids", arg |-> invalid_account_ids(raw)]>>

\* What filter_accounts writes to the console.
filter_accounts_log(raw) ==
    IF Len(invalid_account_ids(raw)) > 0
    THEN <<[text |-> "invalid Ids", arg |-> invalid_account_ids(raw)]>>
    ELSE <<>>

----------------------------------------------------------------------------
(* hasToken and mint *)

\* const gas = Gas.parse("200 Tgas"), in Tgas
MintGasTgas == 200

\* Gas.parse("50Tgas") of the deploy script's newTx, in Tgas
InitGasTgas == 50

Token(media) == [has_metadata |-> TRUE, media |-> media]

\* A token whose optional metadata field is absent.
TokenNoMetadata == [has_metadata |-> FALSE, media |-> ""]

\* Fault variant of MediaName: the ".png" suffix is missing.
MediaName_NoExtension(tn) == tn

\* `${token_num}.png`
MediaName(tn) == tn \o ".png"

\* tokens.some(token => token.metadata!.media == `${token_num}.png`):
\* "true", "false", or "TypeError" when the callback reads .media of an
\* undefined metadata before any token matched.
RECURSIVE tokensSome(_, _)
tokensSome(tokens, tn) ==
    IF tokens = <<>> THEN "false"
    ELSE IF ~Head(tokens).has_metadata THEN "TypeError"
    ELSE IF Head(tokens).media = MediaName(tn) THEN "true"
    ELSE tokensSome(Tail(tokens), tn)

\* Fault variant of hasTokenCatch: the catch block returns false.
hasTokenCatch_ReturnsFalse(account_id) ==
    [result |-> FALSE,
     log |-> <<[text |-> "error", arg |-> <<>>],
               [text |-> "Problem with", arg |-> <<account_id>>]>>]

\* The catch block of hasToken: two console lines, return true.
hasTokenCatch(account_id) ==
    [result |-> TRUE,
     log |-> <<[text |-> "error", arg |-> <<>>],
               [text |-> "Problem with", arg |-> <<account_id>>]>>]

\* Fault variant of hasTokenTry: the answer of tokens.some is negated.
hasTokenTry_Negated(tokens, account_id, tn) ==
    IF tokensSome(tokens, tn) = "TypeError"
    THEN hasTokenCatch(account_id)
    ELSE [result |-> (tokensSome(tokens, tn) # "true"), log |-> <<>>]

\* hasToken once nft_tokens_for_owner has answered with `tokens`.
hasTokenTry(tokens, account_id, tn) ==
    IF tokensSome(tokens, tn) = "TypeError"
    THEN hasTokenCatch(account_id)
    ELSE [result |-> (tokensSome(tokens, tn) = "true"), log |-> <<>>]

\* const DEFAULT_PER_TX = 200
DEFAULT_PER_TX == 200

\* parseInt, on the decimal strings the inputs use.
parseInt(s) == CASE s = "1" -> 1 [] s = "2" -> 2 [] s = "3" -> 3

\* let atATime = number ? parseInt(number) : DEFAULT_PER_TX
atATime(num) == IF num # "undefined" THEN parseInt(num) ELSE DEFAULT_PER_TX

\* Fault variant of loopTest: the loop also stops after per_tx accounts.
loopTest_PerTx(index, length, per_tx) == index < length /\ index < per_tx

\* Line 55: `i < accounts.length`; atATime, computed at line 52, is not read.
loopTest(index, length, per_tx) == index < length

\* Fault variant of mintMethod: the two branches are exchanged.
mintMethod_Swapped(tn) == IF tn = "1" THEN "nft_mint_two" ELSE "nft_mint_one"

\* mint: the contract method it calls.
mintMethod(tn) == IF tn = "1" THEN "nft_mint_one" ELSE "nft_mint_two"

\* Fault variant of mintAwaited: mint(...) is called without await.
mintAwaited_Missing == FALSE

\* The `await` of `await mint(...)`: the loop suspends until the call ends.
mintAwaited == TRUE

\* The loop body after a mint that returned: console.log(`Added ...`).
mintReturned(account_id) ==
    [log |-> <<[text |-> "Added", arg |-> <<account_id>>]>>,
     recorded |-> <<"Minted">>,
     next |-> "continue"]

\* Fault variant of mintCatch: no try/catch, the error leaves the loop.
mintCatch_Rethrow(account_id) ==
    [log |-> <<>>, recorded |-> <<>>, next |-> "throw"]

\* Fault variant of mintCatch: the `continue` is missing, so line 66 runs too.
mintCatch_NoContinue(account_id) ==
    [log |-> <<[text |-> "Failed", arg |-> <<account_id>>],
               [text |-> "Added", arg |-> <<account_id>>]>>,
     recorded |-> <<"Failed", "Minted">>,
     next |-> "continue"]

\* Fault variant of mintCatch: the failed account is tried again at once.
mintCatch_Retry(account_id) ==
    [log |-> <<[text |-> "Failed", arg |-> <<account_id>>]>>,
     recorded |-> <<>>,
     next |-> "again"]

\* The loop body's catch block: console.log(`Failed ...`); continue.
mintCatch(account_id) ==
    [log |-> <<[text |-> "Failed", arg |-> <<account_id>>]>>,
     recorded |-> <<"Failed">>,
     next |-> "continue"]

\* `if (await hasToken(...)) continue;`: nothing is logged by the loop.
hasTokenSkip(account_id) ==
    [log |-> <<>>, recorded |-> <<"Skipped">>, next |-> "continue"]

----------------------------------------------------------------------------
(* The remote contract. *)

\* The token the contract creates for nft_mint_one / nft_mint_two: the
\* first fixed class carries media "1.png", the second "2.png".
nft_mint(method, tokens) ==
    Append(tokens, Token(IF method = "nft_mint_one" THEN "1.png" ELSE "2.png"))

\* The answer of the view method: the owner's tokens, none for an owner the
\* contract has never seen.
nft_tokens_for_owner(rem, owner) ==
    IF owner \in DOMAIN rem THEN rem[owner] ELSE <<>>

----------------------------------------------------------------------------
(* Inputs. *)

\* Raw identifiers of a batch run: "Ba", " b ", "a!".
RawPool == { <<"B", "a">>, <<" ", "b", " ">>, <<"a", "!">> }

SeqsUpTo(S, n) == UNION {[1..k -> S] : k \in 0..n}

TokenNums == {"1", "2", "3"}

Owners == {id \in {normalize(s) : s \in RawPool} :
             RegExpTest(valid_account_id, id)}

InitialTokens == { <<>>, <<Token("1.png")>>, <<TokenNoMetadata>> }

\* The contract's state before the first run: at most one owner holds a
\* token already.
InitialRemotes ==
    {r \in [Owners -> InitialTokens] :
        \E o \in Owners : \A other \in Owners \ {o} : r[other] = <<>>}

Runs == {"first", "second"}

\* Inputs of the validator: every list of at most one string over Alphabet,
\* and every such string before and after each identifier of RawPool.
FilterInputs ==
    {<<>>}
    \cup {<<s>> : s \in AllStrings(MaxIdLen)}
    \cup {<<s, p>> : s \in AllStrings(MaxIdLen), p \in RawPool}
    \cup {<<p, s>> : s \in AllStrings(MaxIdLen), p \in RawPool}

\* argv.length of a batch invocation: too short, without and with argv[3].
ArgvLengths == {2, 3, 4}

\* The values of argv[3], the amount per transaction, when it is given.
NumberArgs == {"1"}

\* res.status of the deployment transaction, as signAndSend returns it.
DeployStatuses == {"SuccessValue:empty", "SuccessValue:value", "Failure"}

----------------------------------------------------------------------------
(* Initial states. *)

MintIdle ==
    /\ raw_account_ids = <<>>
    /\ token_num = "1"
    /\ accounts = <<>>
    /\ i = 0
    /\ pc = "idle"
    /\ remote = [o \in Owners |-> <<>>]
    /\ calls = <<>>
    /\ inflight = {}
    /\ log = <<>>
    /\ outcomes = [r \in Runs |-> <<>>]
    /\ run = "first"
    /\ argv_length = 0
    /\ number = "undefined"
    /\ killed = FALSE

DeployIdle ==
    /\ target_has_code = FALSE
    /\ tx_actions = <<>>
    /\ sent = <<>>
    /\ dpc = "idle"
    /\ dlog = <<>>
    /\ res = "none"

InitMint ==
    /\ prog = "mint"
    /\ killed = FALSE
    /\ has_account \in BOOLEAN
    /\ argv_length \in ArgvLengths
    /\ raw_account_ids \in SeqsUpTo(RawPool, MaxAccounts)
    /\ token_num \in IF argv_length < 3 THEN {"undefined"} ELSE TokenNums
    /\ number \in IF argv_length < 4 THEN {"undefined"} ELSE NumberArgs
    /\ accounts = <<>>
    /\ i = 0
    /\ pc = "start"
    /\ remote \in InitialRemotes
    /\ calls = <<>>
    /\ inflight = {}
    /\ log = <<>>
    /\ outcomes = [r \in Runs |-> <<>>]
    /\ run = "first"
    /\ DeployIdle

InitDeploy ==
    /\ prog = "deploy"
    /\ has_account \in BOOLEAN
    /\ MintIdle
    /\ target_has_code \in BOOLEAN
    /\ tx_actions = <<>>
    /\ sent = <<>>
    /\ dpc = "start"
    /\ dlog = <<>>
    /\ res = "none"

Init == InitMint \/ InitDeploy

----------------------------------------------------------------------------
(* The mint script: main. *)

\* let account_id = accounts[i]
account_id == accounts[i + 1]

ViewCall ==
    [method |-> "nft_tokens_for_owner", account |-> account_id, pos |-> i,
     run |-> run, gas |-> 0, result |-> "pending", tokens |-> <<>>]

MintCall ==
    [method |-> mintMethod(token_num), account |-> account_id, pos |-> i,
     run |-> run, gas |-> MintGasTgas, result |-> "pending", tokens |-> <<>>]

\* The rest of one iteration: h names what it logs, the branch it took and
\* whether the loop goes on; cs and fl are calls and inflight afterwards.
EndIteration(h, cs, fl) ==
    /\ calls' = cs
    /\ inflight' = fl
    /\ log' = log \o h.log
    /\ outcomes' = [outcomes EXCEPT ![run] =
                      @ \o [k \in 1..Len(h.recorded) |->
                              [account |-> account_id, status |-> h.recorded[k]]]]
    /\ CASE h.next = "continue" -> i' = i + 1 /\ pc' = "loop"
         [] h.next = "again" -> i' = i /\ pc' = "loop"
         [] OTHER -> i' = i /\ pc' = "crashed"

\* Lines 57-61 once hasToken has returned h.result.
AfterHasToken(h, cs, fl) ==
    IF h.result
    THEN EndIteration([hasTokenSkip(account_id) EXCEPT !.log = h.log \o @],
                      cs, fl)
    ELSE IF mintAwaited
    THEN /\ calls' = Append(cs, MintCall)
         /\ inflight' = fl \cup {Len(cs) + 1}
         /\ log' = log \o h.log
         /\ pc' = "mint_wait"
         /\ UNCHANGED <<i, outcomes>>
    ELSE EndIteration([mintReturned(account_id) EXCEPT !.log = h.log \o @],
                      Append(cs, MintCall), fl \cup {Len(cs) + 1})

\* Lines 42-47: too few arguments; the usage text, then process.exit(1).
Usage ==
    /\ prog = "mint"
    /\ pc = "start"
    /\ argv_length < 3
    /\ log' = Append(log, [text |-> "Help", arg |-> <<>>])
    /\ pc' = "exited"
    /\ UNCHANGED <<ctxVars, killed, prog, raw_account_ids, token_num, accounts, i,
                   remote, calls, inflight, outcomes, run, deployVars>>

\* Lines 48-55: read the file, filter the accounts, enter the loop.
Start ==
    /\ prog = "mint"
    /\ pc = "start"
    /\ ~(argv_length < 3)
    /\ accounts' = filter_accounts(raw_account_ids)
    /\ log' = log \o filter_accounts_log(raw_account_ids)
    /\ i' = 0
    /\ pc' = "loop"
    /\ UNCHANGED <<ctxVars, killed, prog, raw_account_ids, token_num, remote, calls, inflight,
                   outcomes, run, deployVars>>

\* Lines 55-57 and 22: the loop test holds; hasToken issues the view call.
CallView ==
    /\ prog = "mint"
    /\ pc = "loop"
    /\ loopTest(i, Len(accounts), atATime(number))
    /\ has_account
    /\ calls' = Append(calls, ViewCall)
    /\ inflight' = inflight \cup {Len(calls) + 1}
    /\ pc' = "view_wait"
    /\ UNCHANGED <<ctxVars, killed, prog, raw_account_ids, token_num, accounts, i, remote, log,
                   outcomes, run, deployVars>>

\* Lines 55-57 and 22 with Contract.account undefined: this.account.viewFunction
\* throws a TypeError before anything is sent; hasToken catches it.
CallViewNoAccount ==
    /\ prog = "mint"
    /\ pc = "loop"
    /\ loopTest(i, Len(accounts), atATime(number))
    /\ ~has_account
    /\ AfterHasToken(hasTokenCatch(account_id), calls, inflight)
    /\ UNCHANGED <<ctxVars, killed, prog, raw_account_ids, token_num, accounts, remote,
                   run, deployVars>>

\* Line 55: the loop test fails; main returns.
LoopExit ==
    /\ prog = "mint"
    /\ pc = "loop"
    /\ ~loopTest(i, Len(accounts), atATime(number))
    /\ pc' = "done"
    /\ UNCHANGED <<ctxVars, killed, prog, raw_account_ids, token_num, accounts, i, remote, calls,
                   inflight, log, outcomes, run, deployVars>>

\* The view call answers with the owner's tokens: lines 23, 57-61.
ViewReturn ==
    /\ prog = "mint"
    /\ pc = "view_wait"
    /\ \E k \in inflight :
         /\ calls[k].method = "nft_tokens_for_owner"
         /\ AfterHasToken(hasTokenTry(nft_tokens_for_owner(remote, account_id),
                                      account_id, token_num),
                          [calls EXCEPT ![k].result = "ok",
                                        ![k].tokens =
                                          nft_tokens_for_owner(remote, account_id)],
                          inflight \ {k})
    /\ UNCHANGED <<ctxVars, killed, prog, raw_account_ids, token_num, accounts, remote, run,
                   deployVars>>

\* The view call fails, or answers with something that is no token array
\* (tokens.some throws): lines 24-28, 57-61.
ViewFail ==
    /\ prog = "mint"
    /\ pc = "view_wait"
    /\ \E k \in inflight :
         /\ calls[k].method = "nft_tokens_for_owner"
         /\ AfterHasToken(hasTokenCatch(account_id),
                          [calls EXCEPT ![k].result = "error"],
                          inflight \ {k})
    /\ UNCHANGED <<ctxVars, killed, prog, raw_account_ids, token_num, accounts, remote, run,
                   deployVars>>

\* The mint call succeeds: the contract creates the token; line 66.
MintReturn ==
    /\ prog = "mint"
    /\ pc = "mint_wait"
    /\ \E k \in inflight :
         /\ calls[k].method # "nft_tokens_for_owner"
         /\ remote' = [o \in DOMAIN remote \cup {account_id} |->
                         IF o = account_id
                         THEN nft_mint(calls[k].method,
                                       nft_tokens_for_owner(remote, o))
                         ELSE remote[o]]
         /\ EndIteration(mintReturned(account_id),
                         [calls EXCEPT ![k].result = "ok"], inflight \ {k})
    /\ UNCHANGED <<ctxVars, killed, prog, raw_account_ids, token_num, accounts, run, deployVars>>

\* The mint call throws: lines 62-65.
MintFail ==
    /\ prog = "mint"
    /\ pc = "mint_wait"
    /\ \E k \in inflight :
         /\ calls[k].method # "nft_tokens_for_owner"
         /\ EndIteration(mintCatch(account_id),
                         [calls EXCEPT ![k].result = "error"], inflight \ {k})
    /\ UNCHANGED <<ctxVars, killed, prog, raw_account_ids, token_num, accounts, remote, run,
                   deployVars>>

\* The operator runs the script again with the same arguments and file.
Rerun ==
    /\ prog = "mint"
    /\ pc \in {"done", "killed"}
    /\ run = "first"
    /\ run' = "second"
    /\ pc' = "start"
    /\ i' = 0
    /\ accounts' = <<>>
    /\ log' = <<>>
    /\ UNCHANGED <<ctxVars, killed, prog, raw_account_ids, token_num, remote, calls, inflight,
                   outcomes, deployVars>>

\* The process of the first run is terminated from outside, between two
\* calls or while one is in flight.  A view in flight has no effect; a mint
\* call in flight has been sent, and the contract applies it or never
\* receives it.  (dropped: the call never reached the contract.)
Kill ==
    /\ prog = "mint"
    /\ run = "first"
    /\ pc \in {"loop", "view_wait", "mint_wait"}
    /\ killed' = TRUE
    /\ pc' = "killed"
    /\ inflight' = {}
    /\ IF pc = "mint_wait"
       THEN \E k \in inflight : \E applied \in BOOLEAN :
              IF applied
              THEN /\ remote' = [o \in DOMAIN remote \cup {account_id} |->
                                   IF o = account_id
                                   THEN nft_mint(calls[k].method,
                                                 nft_tokens_for_owner(remote, o))
                                   ELSE remote[o]]
                   /\ calls' = [calls EXCEPT ![k].result = "applied"]
              ELSE /\ remote' = remote
                   /\ calls' = [calls EXCEPT ![k].result = "dropped"]
       ELSE /\ remote' = remote
            /\ calls' = [k \in DOMAIN calls |->
                           IF k \in inflight
                           THEN [calls[k] EXCEPT !.result = "dropped"]
                           ELSE calls[k]]
    /\ UNCHANGED <<ctxVars, prog, raw_account_ids, token_num, accounts, i, log,
                   outcomes, run, deployVars>>

----------------------------------------------------------------------------
(* The deploy script: main. *)

DeployContractAction == [kind |-> "deployContract", method |-> "", gas |-> 0]

\* Fault variant of NewTxAction: the initialize action gets more gas than a
\* mint call.
NewTxAction_LargerGas ==
    [kind |-> "functionCall", method |-> "new", gas |-> MintGasTgas + InitGasTgas]

\* contract.newTx(initialArgs, { gas: Gas.parse("50Tgas") })
NewTxAction == [kind |-> "functionCall", method |-> "new", gas |-> InitGasTgas]

\* Line 121: the condition under which the "new" action is pushed.
pushesNewTx(hasDeployedContract) == hasDeployedContract

\* Fault variant of signAndSend: every action goes out in its own transaction.
signAndSend_Split(actions) == [k \in 1..Len(actions) |-> <<actions[k]>>]

\* Line 127: tx.signAndSend() submits the one transaction with all actions
\* of tx, in the order they were added.
signAndSend(actions) == <<actions>>

\* Lines 134-138: what is printed for res.status.
deployReport(status) ==
    IF status = "SuccessValue:value"
    THEN [text |-> "deployed", arg |-> <<>>]
    ELSE [text |-> "res", arg |-> <<>>]

\* Lines 99-121: build tx with the deploy action, ask for the deployed code.
DeployStart ==
    /\ prog = "deploy"
    /\ dpc = "start"
    /\ has_account
    /\ tx_actions' = <<DeployContractAction>>
    /\ dpc' = "has_wait"
    /\ UNCHANGED <<ctxVars, killed, prog, mintVars, target_has_code, sent, dlog, res>>

\* Lines 99-102: no account; main throws "Must provide --accountId".
DeployNoAccount ==
    /\ prog = "deploy"
    /\ dpc = "start"
    /\ ~has_account
    /\ dpc' = "crashed"
    /\ UNCHANGED <<ctxVars, killed, prog, mintVars, target_has_code, tx_actions, sent,
                   dlog, res>>

\* hasDeployedContract answers: lines 121-127, then signAndSend.
DeployHasReturn ==
    /\ prog = "deploy"
    /\ dpc = "has_wait"
    /\ IF pushesNewTx(target_has_code)
       THEN /\ tx_actions' = Append(tx_actions, NewTxAction)
            /\ dlog' = Append(dlog, [text |-> "initializing with", arg |-> <<>>])
       ELSE UNCHANGED <<tx_actions, dlog>>
    /\ sent' = sent \o signAndSend(tx_actions')
    /\ dpc' = "send_wait"
    /\ UNCHANGED <<ctxVars, killed, prog, mintVars, target_has_code, res>>

\* hasDeployedContract throws: main rejects.
DeployHasFail ==
    /\ prog = "deploy"
    /\ dpc = "has_wait"
    /\ dpc' = "crashed"
    /\ UNCHANGED <<ctxVars, killed, prog, mintVars, target_has_code, tx_actions, sent, dlog,
                   res>>

\* signAndSend returns the outcome: lines 128-138.
DeploySendReturn ==
    /\ prog = "deploy"
    /\ dpc = "send_wait"
    /\ \E status \in DeployStatuses :
         /\ res' = status
         /\ dlog' = dlog \o <<[text |-> "explorer", arg |-> <<>>],
                              deployReport(status)>>
         /\ target_has_code' = (target_has_code \/ status # "Failure")
    /\ dpc' = "done"
    /\ UNCHANGED <<ctxVars, killed, prog, mintVars, tx_actions, sent>>

\* signAndSend throws: main rejects.
DeploySendFail ==
    /\ prog = "deploy"
    /\ dpc = "send_wait"
    /\ dpc' = "crashed"
    /\ UNCHANGED <<ctxVars, killed, prog, mintVars, target_has_code, tx_actions, sent, dlog,
                   res>>

----------------------------------------------------------------------------
(* Specifications. *)

Next ==
    \/ Usage
    \/ Start
    \/ CallView
    \/ CallViewNoAccount
    \/ LoopExit
    \/ ViewReturn
    \/ ViewFail
    \/ MintReturn
    \/ MintFail
    \/ Rerun
    \/ DeployStart
    \/ DeployNoAccount
    \/ DeployHasReturn
    \/ DeployHasFail
    \/ DeploySendReturn
    \/ DeploySendFail

Spec == Init /\ [][Next]_vars

\* The validator alone, on exhaustively enumerated raw identifiers.
InitFilter ==
    /\ prog = "mint"
    /\ killed = FALSE
    /\ has_account = TRUE
    /\ argv_length = 3
    /\ number = "undefined"
    /\ raw_account_ids \in FilterInputs
    /\ token_num = "1"
    /\ accounts = <<>>
    /\ i = 0
    /\ pc = "start"
    /\ remote = [o \in Owners |-> <<>>]
    /\ calls = <<>>
    /\ inflight = {}
    /\ log = <<>>
    /\ outcomes = [r \in Runs |-> <<>>]
    /\ run = "first"
    /\ DeployIdle

NextFilter == Start

SpecFilter == InitFilter /\ [][NextFilter]_vars

\* The batch script whose first run may be terminated at any point and is
\* then run again: well-formed invocations with the default amount.
InitKill ==
    /\ InitMint
    /\ DeployIdle
    /\ has_account
    /\ argv_length = 3

NextKill ==
    \/ Start
    \/ CallView
    \/ LoopExit
    \/ ViewReturn
    \/ ViewFail
    \/ MintReturn
    \/ MintFail
    \/ Kill
    \/ Rerun

SpecKill == InitKill /\ [][NextKill]_vars

\* The exit status of the process once it has ended: process.exit(1) of
\* line 46, a rejected main (an uncaught error), or a main that returned.
ExitCode ==
    IF prog = "mint"
    THEN CASE pc = "exited" -> 1 [] pc = "crashed" -> 1 [] pc = "done" -> 0
           [] OTHER -> -1
    ELSE CASE dpc = "crashed" -> 1 [] dpc = "done" -> 0 [] OTHER -> -1

----------------------------------------------------------------------------
(* Vocabulary of the properties. *)

IsView(c) == c.method = "nft_tokens_for_owner"

IsMint(c) == c.method \in {"nft_mint_one", "nft_mint_two"}

CallIds == 1..Len(calls)

\* Some mint call was issued in run r for list position p (0-based).
MintIssuedAt(r, p) ==
    \E m \in CallIds : IsMint(calls[m]) /\ calls[m].run = r /\ calls[m].pos = p

\* Some view call was issued in run r for list position p, for account a.
ViewIssuedAt(r, p, a) ==
    \E m \in CallIds :
        IsView(calls[m]) /\ calls[m].run = r /\ calls[m].pos = p
        /\ calls[m].account = a

\* The token list holds a token whose media is "<tn>.png".
OwnsMedia(tokens, tn) ==
    \E j \in 1..Len(tokens) :
        tokens[j].has_metadata /\ tokens[j].media = tn \o ".png"

\* The branch recorded for list position p of run r is status, for account a.
RecordedAt(r, p, a, status) ==
    /\ Len(outcomes[r]) > p
    /\ outcomes[r][p + 1] = [account |-> a, status |-> status]

\* Run r is the current one and it is over: main has returned or rejected.
\* (Each run passes through such a state before the script is run again.)
RunOver(r) == r = run /\ pc \in {"done", "crashed"}

\* The characters of an identifier: letters and digits, and separators.
AlnumChars == LowerLetters \cup Digits
SeparatorChars == {"-", "_", "."}
IdChars == AlnumChars \cup SeparatorChars

\* The identifier grammar, stated without the regular expression: runs of
\* [a-z0-9] separated by single characters among - _ . and none at an end.
Grammar(id) ==
    /\ Len(id) > 0
    /\ \A k \in 1..Len(id) : id[k] \in IdChars
    /\ id[1] \in AlnumChars
    /\ id[Len(id)] \in AlnumChars
    /\ \A k \in 1..(Len(id) - 1) :
         ~(id[k] \in SeparatorChars /\ id[k + 1] \in SeparatorChars)

\* trim(lowercase(s)) of the identifiers of RawPool, computed once.
NormalizedPool == [s \in RawPool |-> trim(toLowerCase(s))]

\* trim(lowercase(s)), for every raw identifier of the input, in order.
NormalizedInput ==
    [k \in 1..Len(raw_account_ids) |->
        IF raw_account_ids[k] \in RawPool
        THEN NormalizedPool[raw_account_ids[k]]
        ELSE trim(toLowerCase(raw_account_ids[k]))]

\* The validated accounts of the input: the normalized identifiers that
\* match the grammar, in input order.
Validated == SelectSeq(NormalizedInput, Grammar)

\* The view call k told hasToken enough to answer false.
ViewSaysNotOwned(k) ==
    /\ IsView(calls[k])
    /\ calls[k].result = "ok"
    /\ \A j \in 1..Len(calls[k].tokens) :
         /\ calls[k].tokens[j].has_metadata
         /\ calls[k].tokens[j].media # token_num \o ".png"

\* After position p, run r went on to every later account: each got its
\* view call, and its mint call when the view said not owned.
LaterAccountsProcessed(r, p) ==
    LET v == Validated
    IN  \A q \in (p + 1)..(Len(v) - 1) :
            /\ ViewIssuedAt(r, q, v[q + 1])
            /\ \A m \in CallIds :
                 (ViewSaysNotOwned(m) /\ calls[m].run = r /\ calls[m].pos = q)
                     => MintIssuedAt(r, q)

----------------------------------------------------------------------------
(* C1: an account whose view query succeeds and returns a token with media *)
(* "<token_num>.png" is recorded Skipped, and no mint call (nft_mint_one   *)
(* or nft_mint_two) is issued for that list position.                      *)
C1_OwnedIsSkipped ==
    \A k \in CallIds :
        (IsView(calls[k]) /\ calls[k].result = "ok"
         /\ OwnsMedia(calls[k].tokens, token_num))
        => /\ RecordedAt(calls[k].run, calls[k].pos, calls[k].account, "Skipped")
           /\ ~MintIssuedAt(calls[k].run, calls[k].pos)

\* An account that owned "1.png" before the run was checked with
\* token_num "1" and skipped.
C1_Witness ==
    \E k \in CallIds :
        /\ IsView(calls[k]) /\ calls[k].result = "ok"
        /\ token_num = "1"
        /\ calls[k].tokens = <<Token("1.png")>>
        /\ RecordedAt(calls[k].run, calls[k].pos, calls[k].account, "Skipped")

(* C2: an account whose mint call raises an error is recorded Failed, no   *)
(* other account is, and the run still checks (and mints, where due) every *)
(* later account: the failure never aborts the run.                        *)
C2_MintFailureIsolated ==
    /\ \A k \in CallIds :
         (IsMint(calls[k]) /\ calls[k].result = "error")
         => /\ RecordedAt(calls[k].run, calls[k].pos, calls[k].account, "Failed")
            /\ (calls[k].run = run => pc # "crashed")
            /\ (RunOver(calls[k].run)
                  => LaterAccountsProcessed(calls[k].run, calls[k].pos))
    /\ \A r \in Runs : \A p \in 0..(Len(outcomes[r]) - 1) :
         outcomes[r][p + 1].status = "Failed"
         => \E k \in CallIds :
              /\ IsMint(calls[k]) /\ calls[k].result = "error"
              /\ calls[k].run = r /\ calls[k].pos = p
              /\ calls[k].account = outcomes[r][p + 1].account

\* The mint of the first account failed and the run went on to finish the
\* second account, which was minted.
C2_Witness ==
    /\ pc = "done"
    /\ \E k \in CallIds :
         /\ IsMint(calls[k]) /\ calls[k].result = "error"
         /\ calls[k].run = run /\ calls[k].pos = 0
    /\ Len(outcomes[run]) = 2
    /\ outcomes[run][1].status = "Failed"
    /\ outcomes[run][2].status = "Minted"

(* C3: in a second run on the identical input list and token class, no     *)
(* mint call is issued for an account the first run recorded as Minted or  *)
(* Skipped.                                                                *)
C3_NoMintForSettledAccount ==
    \A k \in CallIds :
        (IsMint(calls[k]) /\ calls[k].run = "second")
        => /\ Len(outcomes["first"]) > calls[k].pos
           /\ outcomes["first"][calls[k].pos + 1].status \notin {"Minted", "Skipped"}

(* C4: the transaction always holds a deploy-code action, and it holds the *)
(* initialize ("new") action if and only if the target account has no      *)
(* deployed code when the plan is built.                                   *)
C4_InitIffNoCode ==
    dpc = "send_wait"
    => /\ \E a \in 1..Len(tx_actions) : tx_actions[a].kind = "deployContract"
       /\ (\E a \in 1..Len(tx_actions) : tx_actions[a].method = "new")
            <=> ~target_has_code

(* C5: when the view query fails, hasToken answers true: no mint call is   *)
(* issued for that account, the failure is logged with the account         *)
(* identifier, and the run continues with the next account.                *)
C5_QueryFailureSkips ==
    \A k \in CallIds :
        (IsView(calls[k]) /\ calls[k].result = "error")
        => /\ ~MintIssuedAt(calls[k].run, calls[k].pos)
           /\ RecordedAt(calls[k].run, calls[k].pos, calls[k].account, "Skipped")
           /\ (calls[k].run = run =>
                 /\ pc # "crashed"
                 /\ \E l \in 1..Len(log) :
                      log[l] = [text |-> "Problem with",
                                arg |-> <<calls[k].account>>])
           /\ (RunOver(calls[k].run)
                 => LaterAccountsProcessed(calls[k].run, calls[k].pos))

\* The view of the first account failed; the run finished after minting the
\* second account.
C5_Witness ==
    /\ pc = "done"
    /\ \E k \in CallIds :
         /\ IsView(calls[k]) /\ calls[k].result = "error"
         /\ calls[k].run = run /\ calls[k].pos = 0
    /\ Len(outcomes[run]) = 2
    /\ outcomes[run][1].status = "Skipped"
    /\ outcomes[run][2].status = "Minted"

(* C6: filter_accounts normalizes every raw identifier s to                *)
(* trim(lowercase(s)) and passes it on if and only if that form matches    *)
(* the grammar; the accepted identifiers keep their input order, and the   *)
(* rejected ones are the invalid set that is reported.                     *)
C6_ValidatorNormalizesAndFilters ==
    (prog = "mint" /\ pc \notin {"start", "idle"})
    => /\ accounts = Validated
       /\ account_ids(raw_account_ids) = NormalizedInput
       /\ LET rejected == SelectSeq(NormalizedInput, LAMBDA id : ~Grammar(id))
          IN  IF rejected = <<>>
              THEN \A l \in 1..Len(log) : log[l].text # "invalid Ids"
              ELSE log[1] = [text |-> "invalid Ids", arg |-> rejected]

\* The input [" B ", "a!"] was filtered: "b" is passed on, "a!" is reported.
C6_Witness ==
    /\ pc = "loop"
    /\ raw_account_ids = << <<" ", "B", " ">>, <<"a", "!">> >>
    /\ accounts = << <<"b">> >>
    /\ log = <<[text |-> "invalid Ids", arg |-> << <<"a", "!">> >>]>>

(* C7: every mint call uses nft_mint_one when token_num is exactly "1" and *)
(* nft_mint_two for every other token_num, the same for all accounts of a  *)
(* run.                                                                    *)
C7_MintOperationByTokenNum ==
    \A k \in CallIds :
        IsMint(calls[k]) =>
            /\ token_num = "1" => calls[k].method = "nft_mint_one"
            /\ token_num # "1" => calls[k].method = "nft_mint_two"

\* With token_num "3" two accounts of one run were minted with nft_mint_two.
C7_Witness ==
    /\ token_num = "3"
    /\ \E k, m \in CallIds :
         /\ calls[k].method = "nft_mint_two" /\ calls[m].method = "nft_mint_two"
         /\ calls[k].run = calls[m].run
         /\ calls[k].pos = 0 /\ calls[m].pos = 1

(* C8: when a run completes it holds exactly one outcome (Minted, Skipped  *)
(* or Failed) for each validated account of the input, in input order.     *)
C8_OneOutcomePerAccountInOrder ==
    \A r \in Runs :
        RunOver(r)
        => LET v == Validated
           IN  /\ Len(outcomes[r]) = Len(v)
               /\ \A p \in 1..Len(outcomes[r]) :
                    /\ outcomes[r][p].account = v[p]
                    /\ outcomes[r][p].status \in {"Minted", "Skipped", "Failed"}

\* A completed run over two distinct validated accounts: the mint of the
\* first failed, the second was skipped; one outcome each, in input order.
C8_Witness ==
    /\ pc = "done"
    /\ Validated = << <<"b", "a">>, <<"b">> >>
    /\ outcomes[run][1].status = "Failed"
    /\ outcomes[run][2].status = "Skipped"

(* C9: at most one remote call (view or mint) is in flight at any time:    *)
(* every call but the latest has returned or failed, and the calls of a    *)
(* run are issued in list order, account i+1 only after account i.         *)
C9_OneCallInFlight ==
    /\ Cardinality(inflight) <= 1
    /\ \A k \in CallIds : calls[k].result = "pending" <=> k \in inflight
    /\ \A k \in CallIds : k < Len(calls) => calls[k].result # "pending"
    /\ \A k, m \in CallIds :
         (k < m /\ calls[k].run = calls[m].run) => calls[k].pos <= calls[m].pos

\* The mint call of the second account is in flight; the first account's
\* view and mint have both ended.
C9_Witness ==
    \E k \in inflight :
        /\ IsMint(calls[k]) /\ calls[k].pos = 1
        /\ \E m \in CallIds :
             IsMint(calls[m]) /\ calls[m].pos = 0 /\ calls[m].run = calls[k].run
             /\ calls[m].result = "ok"

(* C10: an identifier that fails the grammar is excluded: no view query    *)
(* and no mint call is ever issued for it, and the valid identifiers of    *)
(* the same list are still processed (each has an outcome in the run and,  *)
(* when the script has an account to call with, a view query).             *)
C10_InvalidIdentifierExcluded ==
    LET ids == NormalizedInput
    IN  /\ \A k \in CallIds : Grammar(calls[k].account)
        /\ \A j \in 1..Len(ids) :
             ~Grammar(ids[j])
             => \A k \in CallIds : calls[k].account # ids[j]
        /\ \A r \in Runs :
             RunOver(r)
             => \A j \in 1..Len(ids) :
                  Grammar(ids[j])
                  => /\ \E p \in 1..Len(outcomes[r]) :
                          outcomes[r][p].account = ids[j]
                     /\ has_account =>
                          \E k \in CallIds :
                            /\ IsView(calls[k]) /\ calls[k].run = r
                            /\ calls[k].account = ids[j]

\* The input ["a!", "Ba"]: the run is over, "ba" was checked and minted and
\* no call names "a!".
C10_Witness ==
    /\ pc = "done"
    /\ raw_account_ids = << <<"a", "!">>, <<"B", "a">> >>
    /\ \E k \in CallIds : IsMint(calls[k]) /\ calls[k].account = <<"b", "a">>
    /\ \A k \in CallIds : calls[k].account # <<"a", "!">>

\* A configuration error of the invocation: too few positional arguments
\* for the batch script, or no account in the Context.
ConfigError ==
    \/ prog = "mint" /\ argv_length < 3
    \/ ~has_account

\* No remote call has been issued: no view, no mint, no transaction.
NoRemoteCall == calls = <<>> /\ inflight = {} /\ sent = <<>>

\* C11: a configuration error (fewer than 3 positional arguments of the
\* batch script, or a missing account) ends the process with a non-zero
\* exit status, and no remote call (view, mint, transaction) is issued.
C11_ConfigErrorExitsNonZero ==
    ConfigError => NoRemoteCall /\ ExitCode # 0

\* The part of C11 that the code keeps: under a configuration error no
\* remote call is ever issued.
C11_ConfigErrorIssuesNoCall == ConfigError => NoRemoteCall

\* C12: within one run at most one mint call is issued for each position
\* of the validated list, also when that call fails: no two mint calls
\* of a run carry the same position.
C12_NoRetryWithinRun ==
    \A k \in CallIds :
        IsMint(calls[k]) =>
            \A j \in 1..(k - 1) :
                (IsMint(calls[j]) /\ calls[j].run = calls[k].run)
                    => calls[j].pos # calls[k].pos

\* A run is over in which the mint call of the first account failed and
\* the account after it was processed.
C12_Witness ==
    /\ RunOver("first")
    /\ pc = "done"
    /\ Len(accounts) = 2
    /\ \E k \in CallIds :
         /\ IsMint(calls[k]) /\ calls[k].result = "error"
         /\ calls[k].run = "first" /\ calls[k].pos = 0
    /\ ViewIssuedAt("first", 1, accounts[2])

\* The calls of the current run, as positions of calls.
RunCallIds == {k \in CallIds : calls[k].run = run}

\* The number of view calls of the current run issued before call k.
ViewsBefore(k) == Cardinality({j \in RunCallIds : j < k /\ IsView(calls[j])})

\* C13: the amount-per-transaction argument does not change the calls.
\* Whatever argv[3] is (absent, so 200, or given), the calls of a run are
\* the ones fixed by the validated list, token_num and the remote answers
\* alone: one view per account in list order; after a view that shows the
\* token missing, and only then, one mint call for that single account
\* with the method of token_num; and a finished run has queried every
\* account of the list.
C13_CallsIndependentOfAmount ==
    (prog = "mint" /\ has_account /\ pc \notin {"start", "exited"}) =>
        /\ \A k \in RunCallIds :
             /\ IsView(calls[k]) =>
                  /\ calls[k].pos = ViewsBefore(k)
                  /\ calls[k].pos < Len(accounts)
                  /\ calls[k].account = accounts[calls[k].pos + 1]
                  /\ ViewSaysNotOwned(k) =>
                       (k + 1) \in RunCallIds /\ IsMint(calls[k + 1])
             /\ IsMint(calls[k]) =>
                  /\ (k - 1) \in RunCallIds
                  /\ ViewSaysNotOwned(k - 1)
                  /\ calls[k].pos = calls[k - 1].pos
                  /\ calls[k].account = calls[k - 1].account
                  /\ calls[k].method =
                       (IF token_num = "1" THEN "nft_mint_one" ELSE "nft_mint_two")
        /\ pc = "done" => ViewsBefore(Len(calls) + 1) = Len(accounts)

\* A run with amount-per-transaction 1 is over that queried two accounts
\* and issued a mint call for each of them.
C13_Witness ==
    /\ pc = "done"
    /\ number = "1"
    /\ Len(accounts) = 2
    /\ MintIssuedAt(run, 0)
    /\ MintIssuedAt(run, 1)

\* C14: a deployment submits exactly one transaction; it carries the
\* deploy action first and, when the initialize action was added, that
\* action right after it: never a second transaction, never a planned
\* initialize that is left out of the submitted transaction.
C14_OneDeployTransaction ==
    prog = "deploy" =>
        /\ Len(sent) <= 1
        /\ dpc \in {"send_wait", "done"} => Len(sent) = 1
        /\ sent # <<>> =>
             /\ sent[1] = tx_actions
             /\ sent[1][1] = DeployContractAction
             /\ \A k \in 2..Len(sent[1]) : k = 2 /\ sent[1][k] = NewTxAction
             /\ (\E k \in 1..Len(dlog) : dlog[k].text = "initializing with")
                    <=> Len(sent[1]) = 2

\* A deployment has ended whose transaction carried deploy and initialize.
C14_Witness ==
    /\ prog = "deploy"
    /\ dpc = "done"
    /\ sent = << <<DeployContractAction, NewTxAction>> >>

\* The "Added" and "Failed" lines of the current run's console, in order.
ProgressLines == SelectSeq(log, LAMBDA l : l.text \in {"Added", "Failed"})

\* The 'invalid Ids' lines of the current run's console.
InvalidIdsLines == SelectSeq(log, LAMBDA l : l.text = "invalid Ids")

\* The mint calls of the current run that have ended, in order.
EndedMints ==
    SelectSeq(calls, LAMBDA c : IsMint(c) /\ c.run = run /\ c.result # "pending")

\* The progress line that belongs to an ended mint call.
ProgressLineOf(c) ==
    [text |-> IF c.result = "ok" THEN "Added" ELSE "Failed", arg |-> <<c.account>>]

\* At most one 'invalid Ids' line, and at the end of a run there is one
\* exactly when some normalized identifier of the input fails the grammar.
InvalidIdsLineRule ==
    /\ Len(InvalidIdsLines) <= 1
    /\ pc = "done" =>
         LET ids == NormalizedInput
         IN  (Len(InvalidIdsLines) = 1)
                 <=> (\E k \in 1..Len(ids) : ~Grammar(ids[k]))

\* C15 as stated: one progress line per processed account ("Added <id>"
\* for a successful mint, "Failed <id>" for a failed one), and one
\* 'invalid Ids' line exactly when some identifier fails the grammar.
C15_OneLinePerProcessedAccount ==
    (prog = "mint" /\ pc \notin {"start", "exited"}) =>
        /\ pc = "done" => Len(ProgressLines) = Len(accounts)
        /\ \A k \in 1..Len(ProgressLines) :
             k <= Len(EndedMints) /\ ProgressLines[k] = ProgressLineOf(EndedMints[k])
        /\ InvalidIdsLineRule

\* C15, amended: one progress line per account whose mint call has ended,
\* in order, "Added <id>" for a successful mint and "Failed <id>" for a
\* failed one (a skipped account gets neither); and at most one
\* 'invalid Ids' line, present exactly when some identifier fails the
\* grammar.
C15_OneLinePerMintCall ==
    (prog = "mint" /\ pc \notin {"start", "exited"}) =>
        /\ Len(ProgressLines) = Len(EndedMints)
        /\ \A k \in 1..Len(ProgressLines) :
             ProgressLines[k] = ProgressLineOf(EndedMints[k])
        /\ InvalidIdsLineRule

\* The second run is over: it printed the 'invalid Ids' line and "Added ba",
\* after the mint call of the first run had failed.
C15_Witness ==
    /\ pc = "done"
    /\ run = "second"
    /\ Len(InvalidIdsLines) = 1
    /\ ProgressLines = <<[text |-> "Added", arg |-> << <<"b", "a">> >>]>>
    /\ \E k \in CallIds :
         IsMint(calls[k]) /\ calls[k].run = "first" /\ calls[k].result = "error"

\* The mint call of run r for list position p ended with an error.
MintFailedAt(r, p) ==
    \E m \in CallIds :
        /\ IsMint(calls[m]) /\ calls[m].run = r /\ calls[m].pos = p
        /\ calls[m].result = "error"

\* In the second run the view for position p answered and showed the
\* token missing.
SecondViewSaysNotOwnedAt(p) ==
    \E m \in CallIds :
        ViewSaysNotOwned(m) /\ calls[m].run = "second" /\ calls[m].pos = p

\* An account whose mint failed in the first run and whose view in the
\* second run shows the token still missing gets a mint call again.
FailedIsRetried ==
    \A p \in 0..(Len(outcomes["first"]) - 1) :
        (MintFailedAt("first", p) /\ SecondViewSaysNotOwnedAt(p))
            => MintIssuedAt("second", p)

\* An account the first run minted is skipped by the second run.
MintedIsSkipped ==
    \A p \in 0..(Len(outcomes["second"]) - 1) :
        outcomes["first"][p + 1].status = "Minted"
            => outcomes["second"][p + 1].status = "Skipped"

\* C16: in a re-run of the same list, every account whose mint failed in
\* the prior run and whose view now shows the token still missing gets a
\* mint call again, and every account minted in the prior run is skipped.
C16_RerunRetriesFailedSkipsMinted ==
    (prog = "mint" /\ run = "second") => FailedIsRetried /\ MintedIsSkipped

\* The part of C16 that the code keeps: failed accounts are retried, and
\* with token_num "1" or "2" minted accounts are skipped.
C16_HoldsForTokenNumOneAndTwo ==
    (prog = "mint" /\ run = "second") =>
        FailedIsRetried /\ (token_num \in {"1", "2"} => MintedIsSkipped)

\* The mint calls for account a that the contract applied, in either run.
AppliedMints(a) ==
    {k \in CallIds : /\ IsMint(calls[k]) /\ calls[k].account = a
                     /\ calls[k].result \in {"ok", "applied"}}

\* No account was minted more than once by the two runs together.
MintedAtMostOnce ==
    \A p \in 1..Len(accounts) : Cardinality(AppliedMints(accounts[p])) <= 1

\* C17: when the first run is terminated at some point (between calls or
\* with a call in flight) and the same list is then run again in full,
\* no account ends up with more than one token minted by the two runs
\* together.
C17_RerunAfterKillMintsAtMostOnce ==
    (prog = "mint" /\ killed /\ run = "second" /\ pc = "done")
        => MintedAtMostOnce

\* The part of C17 that the code keeps: with token_num "1" or "2" the
\* re-run after a terminated run mints no account a second time.
C17_HoldsForTokenNumOneAndTwo ==
    (prog = "mint" /\ killed /\ run = "second" /\ pc = "done"
     /\ token_num \in {"1", "2"})
        => MintedAtMostOnce

\* The remote state changes only by a mint call that the contract
\* applies, and then by exactly that call's token.
C17_RemoteChangesOnlyByAppliedMint ==
    [][remote' # remote =>
         \E k \in CallIds :
            /\ IsMint(calls[k])
            /\ calls[k].result = "pending"
            /\ calls'[k].result \in {"ok", "applied"}
            /\ remote' = [o \in DOMAIN remote \cup {calls[k].account} |->
                             IF o = calls[k].account
                             THEN nft_mint(calls[k].method,
                                           nft_tokens_for_owner(remote, o))
                             ELSE remote[o]]]_vars

\* @minLength 2 and @maxLength 64 of AccountId.
MinAccountIdLength == 2
MaxAccountIdLength == 64

\* A valid AccountIdentifier: the grammar and the length limits.
ValidAccountIdentifier(id) ==
    /\ Grammar(id)
    /\ Len(id) >= MinAccountIdLength
    /\ Len(id) <= MaxAccountIdLength

\* C18: every identifier that enters the mint loop is a valid
\* AccountIdentifier (it matches the grammar and has 2 to 64 characters),
\* and no view or mint call is issued for any other identifier.
C18_DriverIdsAreValidAccountIds ==
    prog = "mint" =>
        /\ \A k \in 1..Len(accounts) : ValidAccountIdentifier(accounts[k])
        /\ \A m \in CallIds : ValidAccountIdentifier(calls[m].account)

\* The part of C18 that the code keeps: every identifier that enters the
\* mint loop, and every identifier of a call, matches the grammar.
C18_DriverIdsMatchGrammar ==
    prog = "mint" =>
        /\ \A k \in 1..Len(accounts) : Grammar(accounts[k])
        /\ \A m \in CallIds : Grammar(calls[m].account)

\* The mint call of run r for list position p was applied successfully.
MintSucceededAt(r, p) ==
    \E m \in CallIds :
        /\ IsMint(calls[m]) /\ calls[m].run = r /\ calls[m].pos = p
        /\ calls[m].result = "ok"

\* The view of run r for list position p answered with the owner's tokens.
ViewAnsweredAt(r, p) ==
    \E m \in CallIds :
        /\ IsView(calls[m]) /\ calls[m].run = r /\ calls[m].pos = p
        /\ calls[m].result = "ok"

\* Every occurrence of an identifier in the validated list is processed:
\* the finished run has issued one view call for each list position.
EachOccurrenceChecked ==
    \A p \in 0..(Len(accounts) - 1) :
        /\ ViewIssuedAt(run, p, accounts[p + 1])
        /\ Len(outcomes[run]) > p
        /\ outcomes[run][p + 1].account = accounts[p + 1]

\* Once an occurrence of an identifier was minted, every later occurrence
\* whose view answers is Skipped.
LaterOccurrencesSkipped ==
    \A p \in 0..(Len(accounts) - 1) : \A q \in (p + 1)..(Len(accounts) - 1) :
        (/\ accounts[p + 1] = accounts[q + 1]
         /\ MintSucceededAt(run, p)
         /\ ViewAnsweredAt(run, q))
            => outcomes[run][q + 1].status = "Skipped"

\* C19: no deduplication: every occurrence of an identifier in the input
\* is processed with its own idempotency check, and once an occurrence
\* was minted and the view shows the owner's tokens, every later
\* occurrence is Skipped, so the account is minted at most once in the
\* run.
C19_DuplicatesCheckedAndMintedOnce ==
    (prog = "mint" /\ has_account /\ pc = "done")
        => EachOccurrenceChecked /\ LaterOccurrencesSkipped

\* The part of C19 that the code keeps: every occurrence is checked, and
\* with token_num "1" or "2" later occurrences of a minted identifier
\* are Skipped.
C19_HoldsForTokenNumOneAndTwo ==
    (prog = "mint" /\ has_account /\ pc = "done")
        => /\ EachOccurrenceChecked
           /\ token_num \in {"1", "2"} => LaterOccurrencesSkipped

\* The console of the deploy script holds a line with this text.
DeployLogged(text) == \E k \in 1..Len(dlog) : dlog[k].text = text

\* The outcome of the deployment transaction is a success.
DeploySucceeded == res \in {"SuccessValue:empty", "SuccessValue:value"}

\* C20: once the transaction has been submitted and its outcome is back,
\* the transaction identifier is reported, 'deployed' is reported exactly
\* when the outcome is a success (also one with an empty returned value),
\* the outcome is printed as a failure otherwise, and no further
\* transaction is submitted.
C20_DeployedIffSuccess ==
    (prog = "deploy" /\ dpc = "done") =>
        /\ DeployLogged("explorer")
        /\ DeployLogged("deployed") <=> DeploySucceeded
        /\ DeployLogged("res") <=> ~DeploySucceeded
        /\ Len(sent) = 1

\* The part of C20 that the code keeps: the identifier is reported,
\* 'deployed' is reported exactly for a success with a non-empty value,
\* the outcome is printed otherwise, and nothing more is submitted.
C20_DeployedIffNonEmptySuccessValue ==
    (prog = "deploy" /\ dpc = "done") =>
        /\ DeployLogged("explorer")
        /\ DeployLogged("deployed") <=> res = "SuccessValue:value"
        /\ DeployLogged("res") <=> res # "SuccessValue:value"
        /\ Len(sent) = 1

\* The gas of every initialize action of a submitted transaction.
InitGasSubmitted ==
    {sent[t][a].gas : <<t, a>> \in
        {<<t, a>> \in (1..Len(sent)) \X (1..2) :
            a <= Len(sent[t]) /\ sent[t][a].method = "new"}}

\* Every mint call carries the one fixed gas value of the mint driver.
MintGasIsFixed ==
    \A k \in CallIds : IsMint(calls[k]) => calls[k].gas = MintGasTgas

\* C21 as stated: the initialize action carries a fixed gas value, and it
\* is larger than the fixed gas value of a mint call.
C21_InitBudgetLargerThanMintBudget ==
    /\ MintGasIsFixed
    /\ \A g \in InitGasSubmitted : g = InitGasTgas /\ g > MintGasTgas

\* C21, amended: the initialize action carries a fixed gas value (50 Tgas),
\* every mint call carries a fixed gas value (200 Tgas), and the
\* initialize value is the smaller of the two.
C21_InitBudgetSmallerThanMintBudget ==
    /\ MintGasIsFixed
    /\ \A g \in InitGasSubmitted : g = InitGasTgas /\ g < MintGasTgas

\* A deployment has submitted its transaction with the initialize action.
C21_Witness ==
    /\ prog = "deploy"
    /\ dpc = "send_wait"
    /\ InitGasSubmitted # {}

\* hasToken returned true for the view call k: the loop skipped the account
\* (defined once the outcome of the call's list position is recorded).
HasTokenReturnedTrue(k) ==
    outcomes[calls[k].run][calls[k].pos + 1].status = "Skipped"

\* The view calls that answered and whose iteration has ended.
AnsweredViews ==
    {k \in CallIds : /\ IsView(calls[k]) /\ calls[k].result = "ok"
                     /\ Len(outcomes[calls[k].run]) > calls[k].pos}

\* C22: when the view query succeeds, hasToken returns true if and only
\* if some token of the returned list has media "<token_num>.png"; it
\* returns false when none matches, also for an empty list and for a list
\* with a token that has no metadata.
C22_HasTokenIffMediaMatches ==
    \A k \in AnsweredViews :
        HasTokenReturnedTrue(k) <=> OwnsMedia(calls[k].tokens, token_num)

\* The part of C22 that the code keeps: the equivalence holds whenever
\* every token of the returned list has metadata (the empty list included).
C22_HoldsWhenAllTokensHaveMetadata ==
    \A k \in AnsweredViews :
        (\A j \in 1..Len(calls[k].tokens) : calls[k].tokens[j].has_metadata)
            => (HasTokenReturnedTrue(k) <=> OwnsMedia(calls[k].tokens, token_num))

\* No identifier of the input passes the grammar (the empty input included).
NoValidIdentifier ==
    LET ids == NormalizedInput
    IN  \A k \in 1..Len(ids) : ~Grammar(ids[k])

\* C23: when no identifier of the input passes the grammar, or the input
\* is empty, a batch run with its three arguments raises no error, issues
\* no view or mint call and records no outcome: the loop is left at once
\* and main returns.
C23_EmptyValidSubsetIsEmptyRun ==
    (prog = "mint" /\ argv_length >= 3 /\ NoValidIdentifier) =>
        /\ calls = <<>>
        /\ accounts = <<>>
        /\ outcomes[run] = <<>>
        /\ pc \in {"start", "loop", "done"}
        /\ \A k \in 1..Len(log) : log[k].text = "invalid Ids"

\* The run over the input ["a!"] has ended: 'invalid Ids' was printed and
\* nothing was called.
C23_Witness ==
    /\ prog = "mint"
    /\ pc = "done"
    /\ raw_account_ids = << <<"a", "!">> >>
    /\ Len(log) = 1
    /\ calls = <<>>

\* C24: every mint call comes right after the view call of the same run,
\* list position and account, with no other call between them, and that
\* view had answered and shown the token missing; no mint call is issued
\* without such a check.
C24_MintRightAfterNotOwnedView ==
    \A k \in CallIds :
        IsMint(calls[k]) =>
            /\ k > 1
            /\ ViewSaysNotOwned(k - 1)
            /\ calls[k - 1].run = calls[k].run
            /\ calls[k - 1].pos = calls[k].pos
            /\ calls[k - 1].account = calls[k].account

\* The mint call for the second account of the list is in flight, right
\* after that account's view; the first account was skipped.
C24_Witness ==
    /\ pc = "mint_wait"
    /\ Len(calls) = 3
    /\ IsView(calls[1]) /\ calls[1].pos = 0
    /\ IsView(calls[2]) /\ calls[2].pos = 1
    /\ IsMint(calls[3]) /\ calls[3].pos = 1

\* After a successful mint for an account, every later view for that
\* account that answers lets hasToken report the token as owned.
CheckSeesEarlierMint ==
    \A k \in CallIds :
        (IsView(calls[k]) /\ calls[k].result = "ok") =>
            \A m \in 1..(k - 1) :
                (/\ IsMint(calls[m]) /\ calls[m].result = "ok"
                 /\ calls[m].account = calls[k].account)
                    => OwnsMedia(calls[k].tokens, token_num)

\* C25: the check and the mint agree on the token class for every
\* token_num, "3" included: after a successful mint for an account a
\* later check with the same token_num finds the token, and no account is
\* given a second successful mint, in the same run or in the re-run.
C25_CheckAgreesWithMint ==
    prog = "mint" =>
        /\ CheckSeesEarlierMint
        /\ \A p \in 1..Len(accounts) :
             Cardinality(AppliedMints(accounts[p])) <= 1

\* The part of C25 that the code keeps: with token_num "1" or "2" the
\* check finds the token of an earlier mint and no account is minted twice.
C25_HoldsForTokenNumOneAndTwo ==
    (prog = "mint" /\ token_num \in {"1", "2"}) =>
        /\ CheckSeesEarlierMint
        /\ \A p \in 1..Len(accounts) :
             Cardinality(AppliedMints(accounts[p])) <= 1

====
